---- MODULE Spec2Model ----
(***************************************************************************)
(* AzureDevOpsServiceImpl (openhands/integrations/azure_devops) as a state *)
(* machine.  One invocation of a public method runs at a time; every await *)
(* of _make_request is one step whose outcome (missing token, HTTP status  *)
(* error, transport error, or a JSON body) is chosen by the environment.   *)
(* Text is a sequence of one-character strings, so that split, join,       *)
(* substring tests and replace are computed the way the code computes them.*)
(***************************************************************************)
EXTENDS Integers, Sequences, FiniteSets, TLC

\* ---------------------------------------------------------------- bounds
\* Longest list a JSON body carries (organizations, projects, repositories,
\* work items, relations).
MaxLen == 2
\* Requests answered during one invocation; a request sent after that is
\* never answered (no timeout is enforced by the code).
MaxRequests == 6
\* Longest projects listing answered to the invocations run side by side.
MaxSharedProjects == 1

\* ------------------------------------------------------------------ text
SLASH == "/"
DEFAULT_BASE_URL ==
  <<"h", "t", "t", "p", "s", ":", "/", "/", "d", "e", "v", ".", "a", "z", "u", "r", "e", ".", "c", "o", "m">>
CUSTOM_BASE_URL ==
  <<"h", "t", "t", "p", "s", ":", "/", "/", "t", "e", "s", "t", ".", "v", "i", "s", "u", "a", "l", "s", "t", "u", "d", "i", "o", ".", "c", "o", "m">>
DEFAULT_COLLECTION ==
  <<"D", "e", "f", "a", "u", "l", "t", "C", "o", "l", "l", "e", "c", "t", "i", "o", "n">>

\* str.split(sep) for a one-character separator: the pieces between the
\* separators, empty pieces kept.
RECURSIVE SplitAcc(_, _, _)
SplitAcc(s, sep, cur) ==
  IF s = <<>> THEN <<cur>>
  ELSE IF Head(s) = sep THEN <<cur>> \o SplitAcc(Tail(s), sep, <<>>)
  ELSE SplitAcc(Tail(s), sep, Append(cur, Head(s)))

Split(s, sep) == SplitAcc(s, sep, <<>>)

\* sep.join(parts)
RECURSIVE Join(_, _)
Join(parts, sep) ==
  IF parts = <<>> THEN <<>>
  ELSE IF Len(parts) = 1 THEN parts[1]
  ELSE parts[1] \o <<sep>> \o Join(Tail(parts), sep)

\* pat in s (substring test)
RECURSIVE Contains(_, _)
Contains(s, pat) ==
  IF Len(s) < Len(pat) THEN FALSE
  ELSE IF SubSeq(s, 1, Len(pat)) = pat THEN TRUE
  ELSE Contains(Tail(s), pat)

\* All sequences over S of length at most n.
RECURSIVE SeqsUpTo(_, _)
SeqsUpTo(S, n) ==
  IF n = 0 THEN {<<>>}
  ELSE LET shorter == SeqsUpTo(S, n - 1)
       IN  shorter \cup {Append(q, x) : q \in shorter, x \in S}

\* f-string '{a}/{b}'
PathJoin(a, b) == a \o <<SLASH>> \o b

\* urllib.parse.quote with its default safe='/': letters, digits, '_.-~' and
\* '/' are kept, any other character is percent-encoded.
QuoteChar(c) ==
  IF c = " " THEN <<"%", "2", "0">>
  ELSE IF c = ":" THEN <<"%", "3", "A">>
  ELSE IF c = "@" THEN <<"%", "4", "0">>
  ELSE <<c>>
RECURSIVE Quote(_)
Quote(s) == IF s = <<>> THEN <<>> ELSE QuoteChar(Head(s)) \o Quote(Tail(s))

\* urlparse(url).hostname for the URLs the service builds: the text between
\* '//' and the next '/', None (empty) when the URL has no '//' part.
Hostname(url) ==
  LET parts == Split(url, SLASH)
  IN  IF Len(parts) >= 3 /\ parts[2] = <<>> THEN parts[3] ELSE <<>>

\* ------------------------------------------------------- names in bodies
O1 == <<"o", "1">>
O2 == <<"o", "2">>
P1 == <<"p", "1">>
P2 == <<"p", "2">>
R1 == <<"r", "1">>
R2 == <<"r", "2">>
ID_A == <<"a">>
ID_B == <<"b">>

\* One element of the 'value' list of the accounts listing; accountName is
\* empty when the key is missing.
OrgVals == {[accountName |-> O1], [accountName |-> O2], [accountName |-> <<>>]}
\* One element of a projects listing; id or name is empty when missing.
ProjectVals ==
  { [id |-> ID_A, name |-> P1], [id |-> <<>>, name |-> P2],
    [id |-> ID_B, name |-> <<>>] }
\* One element of a repositories listing.
RepoVals ==
  { [id |-> ID_A, name |-> R1], [id |-> ID_B, name |-> R2] }
\* _process_projects copies a missing name as ''; _get_project_repositories
\* is the reader that tests it, so the nameless element is drawn there.
NamelessRepo == [id |-> ID_A, name |-> <<>>]

\* Relations of a work item.
ARTIFACT_LINK ==
  <<"A", "r", "t", "i", "f", "a", "c", "t", "L", "i", "n", "k">>
HYPERLINK ==
  <<"H", "y", "p", "e", "r", "l", "i", "n", "k">>
GIT_REPOSITORIES ==
  <<"g", "i", "t", "/", "r", "e", "p", "o", "s", "i", "t", "o", "r", "i", "e", "s">>
REPOSITORIES ==
  <<"r", "e", "p", "o", "s", "i", "t", "o", "r", "i", "e", "s">>
COMMITS ==
  <<"c", "o", "m", "m", "i", "t", "s">>
GIT_URL_1 ==
  <<"h", "t", "t", "p", "s", ":", "/", "/", "h", "/", "p", "/", "_", "a", "p", "i", "s", "/", "g", "i", "t", "/", "r", "e", "p", "o", "s", "i", "t", "o", "r", "i", "e", "s", "/", "x", "1", "/", "c", "o", "m", "m", "i", "t", "s", "/", "c", "1">>
GIT_URL_2 ==
  <<"h", "t", "t", "p", "s", ":", "/", "/", "h", "/", "p", "/", "_", "a", "p", "i", "s", "/", "g", "i", "t", "/", "r", "e", "p", "o", "s", "i", "t", "o", "r", "i", "e", "s", "/", "x", "2", "/", "c", "o", "m", "m", "i", "t", "s", "/", "c", "2">>
BUILD_URL ==
  <<"v", "s", "t", "f", "s", ":", "/", "/", "/", "B", "u", "i", "l", "d", "/", "B", "u", "i", "l", "d", "/", "7">>
LINKED == <<"l", "k">>
RelVals ==
  { [rel |-> ARTIFACT_LINK, url |-> GIT_URL_1],
    [rel |-> ARTIFACT_LINK, url |-> GIT_URL_2],
    [rel |-> ARTIFACT_LINK, url |-> BUILD_URL],
    [rel |-> HYPERLINK, url |-> GIT_URL_1] }

\* work_item['fields']: null, or a dict whose title is '' when the key is missing.
FieldVals ==
  { [isdict |-> FALSE, title |-> ""],
    [isdict |-> TRUE, title |-> "Fix bug in login"] }
WorkItemIds == {123, 456}
\* One element of the 'value' list of a work-item detail response.
WorkItemVals ==
  { [id |-> i, fields |-> f, relations |-> r] :
      i \in WorkItemIds, f \in FieldVals, r \in SeqsUpTo(RelVals, MaxLen) }

\* get_user's bodies: authenticatedUser is absent (empty) or carries an id
\* and, unless the key is missing (''), a providerDisplayName.
USER_ID == <<"u">>
ConnectionDataVals ==
  { [present |-> FALSE, id |-> <<>>, providerDisplayName |-> ""],
    [present |-> TRUE, id |-> USER_ID, providerDisplayName |-> "test@example.com"],
    [present |-> TRUE, id |-> USER_ID, providerDisplayName |-> ""] }
ProfileVals ==
  { [id |-> USER_ID, emailAddress |-> "test@example.com", displayName |-> "Test"],
    [id |-> USER_ID, emailAddress |-> "", displayName |-> "Test"] }

\* The repository argument of get_repository_details_from_repo_name and
\* get_branches: from no separator to three, with an empty segment and
\* with a character that quote() encodes.
EXTRA == <<"x">>
SPACED == <<"p", " ", "1">>
RepositoryArgVals ==
  { <<>>, R1, Join(<<P1, R1>>, SLASH), Join(<<O1, P1, R1>>, SLASH),
    Join(<<O2, SPACED, R2>>, SLASH), Join(<<O1, <<>>, R1>>, SLASH),
    Join(<<O1, P1, R1, EXTRA>>, SLASH) }

\* One element of the 'value' list of a refs listing.
REFS_HEADS == <<"r", "e", "f", "s", "/", "h", "e", "a", "d", "s", "/">>
MAIN == <<"m", "a", "i", "n">>
SHA_1 == <<"s", "1">>
RefVals ==
  { [name |-> REFS_HEADS \o MAIN, objectId |-> SHA_1],
    [name |-> REFS_HEADS, objectId |-> SHA_1],
    [name |-> MAIN, objectId |-> <<>>] }

\* The exceptions _make_request raises for a request that was sent.
HttpErrors == {"HTTPStatusError", "HTTPError"}

\* ------------------------------------------------------------ Python hash
\* hash(str) is salted per interpreter run (hashseed); hash('') is 0.  The
\* digest is abstracted to a small signed value that depends on both.
Alphabet == <<"a", "b", "u">>
Ord(c) == CHOOSE i \in 1..Len(Alphabet) : Alphabet[i] = c
RECURSIVE HashFold(_, _)
HashFold(h, s) ==
  IF s = <<>> THEN h ELSE HashFold((h * 31 + Ord(Head(s))) % 9973, Tail(s))
PyHash(seed, s) ==
  IF s = <<>> THEN 0
  ELSE LET h == HashFold(7 + seed, s)
       IN  IF (h + seed) % 2 = 0 THEN h ELSE 0 - h
HashSeeds == {0, 1}
\* 0x7FFFFFFF
MASK31 == 2147483647
\* x & 0x7FFFFFFF on a two's-complement integer
Mask31(x) == IF x >= 0 THEN x ELSE (x + MASK31) + 1

\* ---------------------------------------------------------------- state
VARIABLES
  base_domain,      \* the base_domain argument of the constructor, empty when absent
  token,            \* TRUE iff self.token is set
  base_url,         \* self.base_url
  hashseed,         \* the interpreter's hash salt
  op,               \* the public method being run
  repository,       \* its repository-name argument
  pc,               \* where the invocation stands
  result,           \* what the invocation gave its caller
  sent,             \* how many requests of each kind the invocation has sent
  request,          \* the request sent in the step just taken, if any
  last_exc,         \* the exception raised in the step just taken, if any
  response,         \* the JSON body received in the step just taken, if any
  user_email,
  orgs,             \* rest of the iteration over orgs_data['value']
  org_url,
  projects,         \* rest of the iteration over projects_data['value']
  project_name,
  repositories,     \* get_repositories' accumulator
  suggested_tasks,  \* get_suggested_tasks' accumulator
  work_items,       \* work items left in the iteration over work_items_response['value']
  work_item,        \* the work item being associated
  relations,        \* rest of the iteration over work_item['relations']
  repo_id,          \* the repository id parsed from the relation at hand
  item_lookups,     \* repository lookups made for the work item at hand
  delivered,        \* bodies of the answered list-repositories requests of get_repositories
  announced,        \* organizations and projects listed so far that the walker has to visit
  items_listed,     \* work items listed so far by detail responses
  items_begun,      \* work items whose processing has begun
  frames,           \* the invocations of get_repositories run side by side
  mock,             \* what each request of those invocations is answered with
  file_names,       \* process_files_to_prompt's arguments
  output_file,
  markdown,
  line_numbers,
  environ,          \* the names defined in os.environ
  dirs,             \* the directories that exist
  files,            \* the files that exist, with their content
  args              \* the command line the files-to-prompt tool was last run with

svc == <<base_domain, token, base_url, hashseed, frames, mock>>
plugin == <<file_names, output_file, markdown, line_numbers, environ, dirs, files, args>>
call == <<op, repository>>
repo_walk == <<repositories, delivered>>
item_walk == <<work_items, work_item, relations, repo_id, item_lookups,
               items_listed, items_begun>>
vars == <<base_domain, token, base_url, hashseed, op, repository, pc, result, sent, request,
          last_exc, response, user_email, orgs, org_url, projects,
          project_name, repositories, suggested_tasks, work_items, work_item,
          relations, repo_id, item_lookups, delivered, announced, items_listed,
          items_begun, frames, mock, file_names, output_file, markdown,
          line_numbers, environ, dirs, files, args>>

Pending == [status |-> "pending", exc |-> "", value |-> <<>>]
Returned(v) == [status |-> "returned", exc |-> "", value |-> v]
Raised(e) == [status |-> "raised", exc |-> e, value |-> <<>>]

NoBody == [kind |-> "none"]
Body(kind, value) == [kind |-> kind, value |-> value]
NoWorkItem == [id |-> 0, fields |-> [isdict |-> FALSE, title |-> ""]]

\* A service that takes every base for the platform default host.
AlwaysDefault == FALSE
\* self.base_url != 'https://dev.azure.com'
IsCustom == base_url # DEFAULT_BASE_URL

Req(kind, url, project, repo) ==
  [kind |-> kind, org_url |-> url, project |-> project, repo |-> repo]
NoReq == Req("none", <<>>, <<>>, <<>>)

\* The endpoints the service calls.
Kinds ==
  { "connectionData", "profile", "probe", "accounts", "projects",
    "repositories", "wiql", "workitems", "repository", "refs" }
RECURSIVE SumOver(_, _)
SumOver(f, S) ==
  IF S = {} THEN 0
  ELSE LET k == CHOOSE x \in S : TRUE IN f[k] + SumOver(f, S \ {k})
\* Requests sent so far by the invocation.
Total == SumOver(sent, Kinds)

\* Headers built whether or not a token is configured.
TokenNeverChecked == FALSE
\* _get_auth_headers: raises when no token is configured.
NoTokenConfigured == ~token

\* _make_request raising before anything is sent.
RequestRefused ==
  /\ NoTokenConfigured
  /\ sent' = sent
  /\ request' = NoReq
  /\ last_exc' = "AuthenticationError"
  /\ response' = NoBody

\* _make_request sending req and raising what the client raised.
RequestFails(req) ==
  /\ ~NoTokenConfigured
  /\ Total < MaxRequests
  /\ sent' = [sent EXCEPT ![req.kind] = @ + 1]
  /\ request' = req
  /\ \E e \in HttpErrors : last_exc' = e
  /\ response' = NoBody

\* _make_request raising, one way or the other.
RequestRaises(req) == RequestRefused \/ RequestFails(req)

\* _make_request sending req and returning the body data.
RequestSucceeds(req, data) ==
  /\ ~NoTokenConfigured
  /\ Total < MaxRequests
  /\ sent' = [sent EXCEPT ![req.kind] = @ + 1]
  /\ request' = req
  /\ last_exc' = ""
  /\ response' = Body(req.kind, data)

\* A step that awaits nothing.
NoRequest ==
  /\ sent' = sent
  /\ request' = NoReq
  /\ last_exc' = ""
  /\ response' = NoBody

\* ------------------------------------------------------------- __init__
HTTP == <<"h", "t", "t", "p">>
HTTPS_PREFIX == <<"h", "t", "t", "p", "s", ":", "/", "/">>
SCHEME_SEP == <<":", "/", "/">>

\* str.startswith
StartsWith(x, prefix) ==
  Len(x) >= Len(prefix) /\ SubSeq(x, 1, Len(prefix)) = prefix

\* str.rstrip(c): every trailing c removed
RECURSIVE RStrip(_, _)
RStrip(x, c) ==
  IF x # <<>> /\ x[Len(x)] = c THEN RStrip(SubSeq(x, 1, Len(x) - 1), c) ELSE x

\* str.split(sep, 1): cut at the first occurrence of sep, if any
RECURSIVE SplitOnceAcc(_, _, _)
SplitOnceAcc(x, sep, cur) ==
  IF Len(x) < Len(sep) THEN <<cur \o x>>
  ELSE IF SubSeq(x, 1, Len(sep)) = sep
    THEN <<cur, SubSeq(x, Len(sep) + 1, Len(x))>>
    ELSE SplitOnceAcc(Tail(x), sep, Append(cur, Head(x)))
SplitOnce(x, sep) == SplitOnceAcc(x, sep, <<>>)

\* A slice that keeps every part.
EveryPart(parts) == parts
\* url_parts[:3]
FirstThree(parts) == SubSeq(parts, 1, IF Len(parts) < 3 THEN Len(parts) ELSE 3)

Resolved(url) == [raised |-> "", url |-> url]
ConstructorRaises(e) == [raised |-> e, url |-> <<>>]

\* The base_url the constructor sets for base_domain, or what it raises.
ResolveBaseUrl(domain) ==
  IF domain = <<>> THEN Resolved(DEFAULT_BASE_URL)
  ELSE IF StartsWith(domain, HTTP)
    THEN LET stripped == RStrip(domain, SLASH)
             halves == SplitOnce(stripped, SCHEME_SEP)
         IN  IF Len(halves) < 2 THEN ConstructorRaises("IndexError")
             ELSE IF Contains(halves[2], <<SLASH>>)
               THEN Resolved(Join(FirstThree(Split(stripped, SLASH)), SLASH))
               ELSE Resolved(stripped)
    ELSE Resolved(HTTPS_PREFIX \o domain)

\* The locals of one invocation of get_repositories.
Frames == {1, 2}
NoFrame ==
  [ pc |-> "idle", orgs |-> <<>>, org_url |-> <<>>, projects |-> <<>>,
    project_name |-> <<>>, repositories |-> <<>>, result |-> Pending ]
\* A request not made yet has no answer yet; once made, its answer stays.
Unset == [state |-> "unset", data |-> <<>>]
Scopes ==
  {CUSTOM_BASE_URL, PathJoin(DEFAULT_BASE_URL, O1), PathJoin(DEFAULT_BASE_URL, O2)}
NoMock ==
  [ accounts |-> Unset,
    projects |-> [u \in Scopes |-> Unset],
    repositories |-> [k \in Scopes \X {P1, P2} |-> Unset] ]

\* No public method has been invoked.
NoInvocation ==
  /\ frames = [f \in Frames |-> NoFrame]
  /\ mock = NoMock
  /\ op = "none"
  /\ repository = <<>>
  /\ result = Pending
  /\ sent = [k \in Kinds |-> 0]
  /\ request = NoReq
  /\ last_exc = ""
  /\ response = NoBody
  /\ user_email = ""
  /\ orgs = <<>>
  /\ org_url = <<>>
  /\ projects = <<>>
  /\ project_name = <<>>
  /\ repositories = <<>>
  /\ suggested_tasks = <<>>
  /\ work_items = 0
  /\ work_item = NoWorkItem
  /\ relations = <<>>
  /\ repo_id = <<>>
  /\ item_lookups = 0
  /\ delivered = <<>>
  /\ announced = [orgs |-> 0, projects |-> 0]
  /\ items_listed = 0
  /\ items_begun = 0

\* process_files_to_prompt has not been called, on an empty file system.
NoPluginCall ==
  /\ file_names = <<>>
  /\ output_file = <<>>
  /\ markdown = FALSE
  /\ line_numbers = FALSE
  /\ environ = {}
  /\ dirs = {}
  /\ files = {}
  /\ args = <<>>

\* The instances the invocations below run on: no base_domain, or the one
\* of the unit tests.
Init ==
  /\ base_domain \in {<<>>, CUSTOM_BASE_URL}
  /\ token \in BOOLEAN
  /\ base_url = ResolveBaseUrl(base_domain).url
  /\ hashseed \in HashSeeds
  /\ pc = "idle"
  /\ NoInvocation
  /\ NoPluginCall

\* A public method is entered on an idle instance or after the previous
\* invocation ended; its locals start fresh.
Enter(method, arg) ==
  /\ pc \in {"idle", "done"}
  /\ op' = method
  /\ repository' = arg
  /\ sent' = [k \in Kinds |-> 0]
  /\ request' = NoReq
  /\ last_exc' = ""
  /\ response' = NoBody
  /\ user_email' = ""
  /\ orgs' = <<>>
  /\ projects' = <<>>
  /\ project_name' = <<>>
  /\ repositories' = <<>>
  /\ suggested_tasks' = <<>>
  /\ work_items' = 0
  /\ work_item' = NoWorkItem
  /\ relations' = <<>>
  /\ repo_id' = <<>>
  /\ item_lookups' = 0
  /\ delivered' = <<>>
  /\ announced' = [orgs |-> 0, projects |-> 0]
  /\ items_listed' = 0
  /\ items_begun' = 0
  /\ UNCHANGED <<svc, plugin>>

\* ----------------------------------------------------- _process_projects
ProjectEligible(project) == project.id # <<>> /\ project.name # <<>>

\* The last path segment whatever the base, as on the default host.
OrgFromPath(base_org_url) ==
  IF base_org_url # base_url
    THEN LET parts == Split(base_org_url, SLASH) IN parts[Len(parts)]
    ELSE DEFAULT_COLLECTION
\* org_name of _process_projects and _process_work_items
OrgNameOf(base_org_url) ==
  IF IsCustom
    THEN LET hostname == Hostname(base_org_url)
         IN  IF hostname # <<>> THEN Split(hostname, ".")[1] ELSE DEFAULT_COLLECTION
    ELSE IF base_org_url # base_url
           THEN LET parts == Split(base_org_url, SLASH) IN parts[Len(parts)]
           ELSE DEFAULT_COLLECTION

\* Repository.id as the code fills it: an int, or the string of a body.
IntId(n) == [type |-> "int", int |-> n, str |-> <<>>]
StrId(x) == [type |-> "str", int |-> 0, str |-> x]

RepositoryOf(repo, org_name, project) ==
  [ id |-> IntId(Mask31(PyHash(hashseed, repo.id))),
    full_name |-> PathJoin(PathJoin(org_name, project), repo.name),
    git_provider |-> "azure_devops",
    is_public |-> FALSE ]

RECURSIVE RepositoriesOf(_, _, _)
RepositoriesOf(repos, org_name, project) ==
  IF repos = <<>> THEN <<>>
  ELSE <<RepositoryOf(Head(repos), org_name, project)>>
       \o RepositoriesOf(Tail(repos), org_name, project)

RECURSIVE CountEligible(_)
CountEligible(ps) ==
  IF ps = <<>> THEN 0
  ELSE (IF ProjectEligible(Head(ps)) THEN 1 ELSE 0) + CountEligible(Tail(ps))

\* A failure that ends the iteration over the projects.
AbandonProjects(ps) == <<>>
\* except of the per-project try: the iteration goes on with the projects left
ProjectsLeftAfterError(ps) == ps

PpNextProject ==
  /\ pc = "pp_loop"
  /\ NoRequest
  /\ IF projects = <<>>
       THEN /\ IF IsCustom
                 THEN result' = Returned(repositories) /\ pc' = "done"
                 ELSE result' = result /\ pc' = "gr_org_loop"
            /\ org_url' = <<>>
            /\ UNCHANGED <<projects, project_name>>
       ELSE /\ projects' = Tail(projects)
            /\ UNCHANGED <<result, org_url>>
            /\ IF ProjectEligible(Head(projects))
                 THEN pc' = "pp_repos" /\ project_name' = Head(projects).name
                 ELSE pc' = "pp_loop" /\ project_name' = <<>>
  /\ UNCHANGED <<svc, plugin, call, user_email, orgs, repo_walk, suggested_tasks,
                 item_walk, announced>>

PpListRepositories ==
  /\ pc = "pp_repos"
  /\ LET req == Req("repositories", org_url, project_name, <<>>)
     IN  \/ /\ RequestRaises(req)
            /\ projects' = ProjectsLeftAfterError(projects)
            /\ UNCHANGED <<repositories, delivered>>
         \/ \E data \in SeqsUpTo(RepoVals, MaxLen) :
              /\ RequestSucceeds(req, data)
              /\ repositories' = repositories
                   \o RepositoriesOf(data, OrgNameOf(org_url), project_name)
              /\ delivered' = Append(delivered,
                   [org_url |-> org_url, project |-> project_name, repos |-> data])
              /\ projects' = projects
  /\ pc' = "pp_loop"
  /\ project_name' = <<>>
  /\ UNCHANGED <<svc, plugin, call, result, user_email, orgs, org_url,
                 suggested_tasks, item_walk, announced>>

\* --------------------------------------------------------- get_repositories
\* Organizations that pass 'if not org_name: continue' / 'if org_name:'
RECURSIVE CountNamedOrgs(_)
CountNamedOrgs(os) ==
  IF os = <<>> THEN 0
  ELSE (IF Head(os).accountName # <<>> THEN 1 ELSE 0) + CountNamedOrgs(Tail(os))

\* An except clause that lets the exception through.
GetRepositoriesReraise(e) == Raised(e)
\* except of the whole body
GetRepositoriesExcept(e) == Returned(<<>>)

CallGetRepositories ==
  /\ Enter("get_repositories", <<>>)
  /\ result' = Pending
  /\ pc' = IF IsCustom THEN "gr_projects" ELSE "gr_orgs"
  /\ org_url' = IF IsCustom THEN base_url ELSE <<>>

GrListOrganizations ==
  /\ pc = "gr_orgs"
  /\ LET req == Req("accounts", base_url, <<>>, <<>>)
     IN  \/ /\ RequestRaises(req)
            /\ result' = GetRepositoriesExcept(last_exc')
            /\ pc' = "done"
            /\ UNCHANGED <<orgs, announced>>
         \/ \E data \in SeqsUpTo(OrgVals, MaxLen) :
              /\ RequestSucceeds(req, data)
              /\ orgs' = data
              /\ announced' = [announced EXCEPT !.orgs = @ + CountNamedOrgs(data)]
              /\ pc' = "gr_org_loop"
              /\ result' = result
  /\ UNCHANGED <<svc, plugin, call, user_email, org_url, projects, project_name,
                 repo_walk, suggested_tasks, item_walk>>

GrNextOrganization ==
  /\ pc = "gr_org_loop"
  /\ NoRequest
  /\ IF orgs = <<>>
       THEN /\ result' = Returned(repositories)
            /\ pc' = "done"
            /\ org_url' = <<>>
            /\ orgs' = orgs
       ELSE /\ orgs' = Tail(orgs)
            /\ result' = result
            /\ IF Head(orgs).accountName = <<>>
                 THEN pc' = "gr_org_loop" /\ org_url' = <<>>
                 ELSE /\ pc' = "gr_projects"
                      /\ org_url' = PathJoin(base_url, Head(orgs).accountName)
  /\ UNCHANGED <<svc, plugin, call, user_email, projects, project_name, repo_walk,
                 suggested_tasks, item_walk, announced>>

GrListProjects ==
  /\ pc = "gr_projects"
  /\ LET req == Req("projects", org_url, <<>>, <<>>)
     IN  \/ /\ RequestRaises(req)
            /\ IF IsCustom
                 THEN result' = Returned(repositories) /\ pc' = "done"
                 ELSE result' = result /\ pc' = "gr_org_loop"
            /\ org_url' = <<>>
            /\ UNCHANGED <<projects, announced>>
         \/ \E data \in SeqsUpTo(ProjectVals, MaxLen) :
              /\ RequestSucceeds(req, data)
              /\ projects' = data
              /\ announced' = [announced EXCEPT !.projects = @ + CountEligible(data)]
              /\ pc' = "pp_loop"
              /\ UNCHANGED <<result, org_url>>
  /\ UNCHANGED <<svc, plugin, call, user_email, orgs, project_name, repo_walk,
                 suggested_tasks, item_walk>>

\* ------------------------------------------------------------- get_user
UserOfConnectionData(au) ==
  [ id |-> Mask31(PyHash(hashseed, au.id)),
    login |-> au.providerDisplayName,
    avatar_url |-> "",
    name |-> au.providerDisplayName,
    email |-> au.providerDisplayName ]

UserOfProfile(data) ==
  [ id |-> Mask31(PyHash(hashseed, data.id)),
    login |-> data.emailAddress,
    avatar_url |-> "",
    name |-> data.displayName,
    email |-> data.emailAddress ]

MinimalUser ==
  [ id |-> 1,
    login |-> "ado-user",
    avatar_url |-> "",
    name |-> "Azure DevOps User",
    email |-> "ado-user@example.com" ]

\* A walk that starts whatever the email is.
EmailNeverMissing(email) == FALSE
\* 'if not user_email' of get_suggested_tasks
EmailMissing(email) == email = ""

\* except of the whole body of get_suggested_tasks
GetSuggestedTasksExcept(e) == Returned(<<>>)

\* get_user returns u: to the caller of get_user, or into get_suggested_tasks,
\* which stops on a missing email and otherwise starts its walk.
GetUserReturns(u) ==
  IF op = "get_user"
    THEN /\ result' = Returned(u)
         /\ pc' = "done"
         /\ UNCHANGED <<user_email, org_url>>
    ELSE IF EmailMissing(u.email)
      THEN /\ result' = Returned(<<>>)
           /\ pc' = "done"
           /\ UNCHANGED <<user_email, org_url>>
      ELSE /\ result' = result
           /\ user_email' = u.email
           /\ pc' = IF IsCustom THEN "wi_projects" ELSE "gst_orgs"
           /\ org_url' = IF IsCustom THEN base_url ELSE <<>>

\* A last tier whose failure is taken for a valid token.
ProbeFailureIgnored == GetUserReturns(MinimalUser)
\* get_user raises AuthenticationError('Invalid Azure DevOps token').
GetUserRaises ==
  /\ result' = IF op = "get_user" THEN Raised("AuthenticationError")
               ELSE GetSuggestedTasksExcept("AuthenticationError")
  /\ pc' = "done"
  /\ UNCHANGED <<user_email, org_url>>

CallGetUser ==
  /\ Enter("get_user", <<>>)
  /\ result' = Pending
  /\ pc' = IF IsCustom THEN "gu_connection_data" ELSE "gu_profile"
  /\ org_url' = <<>>

GuConnectionData ==
  /\ pc = "gu_connection_data"
  /\ LET req == Req("connectionData", base_url, <<>>, <<>>)
     IN  \/ /\ RequestRaises(req)
            /\ pc' = "gu_profile"
            /\ UNCHANGED <<result, user_email, org_url>>
         \/ \E au \in ConnectionDataVals :
              /\ RequestSucceeds(req, au)
              /\ IF au.present
                   THEN GetUserReturns(UserOfConnectionData(au))
                   ELSE /\ pc' = "gu_profile"
                        /\ UNCHANGED <<result, user_email, org_url>>
  /\ UNCHANGED <<svc, plugin, call, orgs, projects, project_name, repo_walk,
                 suggested_tasks, item_walk, announced>>

GuProfile ==
  /\ pc = "gu_profile"
  /\ LET req == Req("profile", <<>>, <<>>, <<>>)
     IN  \/ /\ RequestRaises(req)
            /\ pc' = "gu_probe"
            /\ UNCHANGED <<result, user_email, org_url>>
         \/ \E data \in ProfileVals :
              /\ RequestSucceeds(req, data)
              /\ GetUserReturns(UserOfProfile(data))
  /\ UNCHANGED <<svc, plugin, call, orgs, projects, project_name, repo_walk,
                 suggested_tasks, item_walk, announced>>

GuProbe ==
  /\ pc = "gu_probe"
  /\ LET req == Req("probe", base_url, <<>>, <<>>)
     IN  \/ /\ RequestRaises(req)
            /\ GetUserRaises
         \/ /\ RequestSucceeds(req, <<>>)
            /\ GetUserReturns(MinimalUser)
  /\ UNCHANGED <<svc, plugin, call, orgs, projects, project_name, repo_walk,
                 suggested_tasks, item_walk, announced>>

\* ------------------------------------------------------ get_suggested_tasks
CallGetSuggestedTasks ==
  /\ Enter("get_suggested_tasks", <<>>)
  /\ result' = Pending
  /\ pc' = IF IsCustom THEN "gu_connection_data" ELSE "gu_profile"
  /\ org_url' = <<>>

GstListOrganizations ==
  /\ pc = "gst_orgs"
  /\ LET req == Req("accounts", base_url, <<>>, <<>>)
     IN  \/ /\ RequestRaises(req)
            /\ result' = Returned(suggested_tasks)
            /\ pc' = "done"
            /\ UNCHANGED <<orgs, announced>>
         \/ \E data \in SeqsUpTo(OrgVals, MaxLen) :
              /\ RequestSucceeds(req, data)
              /\ orgs' = data
              /\ announced' = [announced EXCEPT !.orgs = @ + CountNamedOrgs(data)]
              /\ pc' = "gst_org_loop"
              /\ result' = result
  /\ UNCHANGED <<svc, plugin, call, user_email, org_url, projects, project_name,
                 repo_walk, suggested_tasks, item_walk>>

GstNextOrganization ==
  /\ pc = "gst_org_loop"
  /\ NoRequest
  /\ IF orgs = <<>>
       THEN /\ result' = Returned(suggested_tasks)
            /\ pc' = "done"
            /\ org_url' = <<>>
            /\ orgs' = orgs
       ELSE /\ orgs' = Tail(orgs)
            /\ result' = result
            /\ IF Head(orgs).accountName = <<>>
                 THEN pc' = "gst_org_loop" /\ org_url' = <<>>
                 ELSE /\ pc' = "wi_projects"
                      /\ org_url' = PathJoin(base_url, Head(orgs).accountName)
  /\ UNCHANGED <<svc, plugin, call, user_email, projects, project_name, repo_walk,
                 suggested_tasks, item_walk, announced>>

\* ------------------------------------- _get_work_items_for_organization
RECURSIVE CountNamed(_)
CountNamed(ps) ==
  IF ps = <<>> THEN 0
  ELSE (IF Head(ps).name # <<>> THEN 1 ELSE 0) + CountNamed(Tail(ps))

\* A failed query that ends the iteration over the projects.
AbandonQueries(ps) == <<>>
\* except of the per-project try: the iteration goes on with the projects left
ProjectsLeftAfterWiqlError(ps) == ps

\* A query result that is never taken for empty.
NeverEmpty(ids) == FALSE
\* 'if not work_items: continue' and 'if work_item_ids:'
NoWorkItems(ids) == ids = <<>>

\* _get_work_items_for_organization is over: get_suggested_tasks returns
\* (fixed organization) or goes to the next organization.
OrganizationDone ==
  /\ IF IsCustom
       THEN result' = Returned(suggested_tasks) /\ pc' = "done"
       ELSE result' = result /\ pc' = "gst_org_loop"
  /\ org_url' = <<>>

WiListProjects ==
  /\ pc = "wi_projects"
  /\ LET req == Req("projects", org_url, <<>>, <<>>)
     IN  \/ /\ RequestRaises(req)
            /\ OrganizationDone
            /\ UNCHANGED <<projects, announced>>
         \/ \E data \in SeqsUpTo(ProjectVals, MaxLen) :
              /\ RequestSucceeds(req, data)
              /\ projects' = data
              /\ announced' = [announced EXCEPT !.projects = @ + CountNamed(data)]
              /\ pc' = "wi_project_loop"
              /\ UNCHANGED <<result, org_url>>
  /\ UNCHANGED <<svc, plugin, call, user_email, orgs, project_name, repo_walk,
                 suggested_tasks, item_walk>>

WiNextProject ==
  /\ pc = "wi_project_loop"
  /\ NoRequest
  /\ IF projects = <<>>
       THEN /\ OrganizationDone
            /\ UNCHANGED <<projects, project_name>>
       ELSE /\ projects' = Tail(projects)
            /\ UNCHANGED <<result, org_url>>
            /\ IF Head(projects).name # <<>>
                 THEN pc' = "wi_wiql" /\ project_name' = Head(projects).name
                 ELSE pc' = "wi_project_loop" /\ project_name' = <<>>
  /\ UNCHANGED <<svc, plugin, call, user_email, orgs, repo_walk, suggested_tasks,
                 item_walk, announced>>

WiQuery ==
  /\ pc = "wi_wiql"
  /\ LET req == Req("wiql", org_url, Quote(project_name), <<>>)
     IN  \/ /\ RequestRaises(req)
            /\ projects' = ProjectsLeftAfterWiqlError(projects)
            /\ pc' = "wi_project_loop"
            /\ project_name' = <<>>
         \/ \E ids \in SeqsUpTo(WorkItemIds, MaxLen) :
              /\ RequestSucceeds(req, ids)
              /\ projects' = projects
              /\ IF NoWorkItems(ids)
                   THEN pc' = "wi_project_loop" /\ project_name' = <<>>
                   ELSE pc' = "pw_details" /\ project_name' = project_name
  /\ UNCHANGED <<svc, plugin, call, result, user_email, orgs, org_url, repo_walk,
                 suggested_tasks, item_walk, announced>>

\* ---------------------------------------------------- _process_work_items
MapWorkItemTypeToTaskType(work_item_type) == "OPEN_ISSUE"

SuggestedTaskOf(item, repo_name) ==
  [ git_provider |-> "azure_devops",
    task_type |-> MapWorkItemTypeToTaskType("Work Item"),
    repo |-> repo_name,
    issue_number |-> item.id,
    title |-> IF item.fields.title = "" THEN "Untitled Work Item"
              ELSE item.fields.title ]

\* An accumulator that takes each new task at its front.
TasksPrepended(tasks, item, repo_name) ==
  IF repo_name # <<>> THEN <<SuggestedTaskOf(item, repo_name)>> \o tasks
  ELSE tasks
\* An accumulator that holds each task once.
TasksWithoutDuplicates(tasks, item, repo_name) ==
  IF repo_name # <<>>
       /\ \A i \in 1..Len(tasks) : tasks[i] # SuggestedTaskOf(item, repo_name)
    THEN Append(tasks, SuggestedTaskOf(item, repo_name))
  ELSE tasks
\* 'if repo_name:' then append: the accumulator after a work item whose
\* association gave repo_name (empty for None).
TasksAfterItem(tasks, item, repo_name) ==
  IF repo_name # <<>> THEN Append(tasks, SuggestedTaskOf(item, repo_name))
  ELSE tasks

\* The work item at hand is done; the item loop goes on.
ItemDone ==
  /\ pc' = "pw_item_loop"
  /\ work_item' = NoWorkItem
  /\ relations' = <<>>
  /\ repo_id' = <<>>
  /\ item_lookups' = 0

PwDetails ==
  /\ pc = "pw_details"
  /\ LET req == Req("workitems", org_url, Quote(project_name), <<>>)
     IN  \/ /\ RequestRaises(req)
            /\ pc' = "wi_project_loop"
            /\ project_name' = <<>>
            /\ UNCHANGED <<work_items, items_listed>>
         \* the body fixes how many work items it lists; the content of each
         \* is drawn when the loop reads it (the list is read once, in order)
         \/ \E n \in 0..MaxLen :
              /\ RequestSucceeds(req, n)
              /\ work_items' = n
              /\ items_listed' = items_listed + n
              /\ pc' = "pw_item_loop"
              /\ project_name' = project_name
  /\ UNCHANGED <<svc, plugin, call, result, user_email, orgs, org_url, projects,
                 repo_walk, suggested_tasks, work_item, relations, repo_id,
                 item_lookups, items_begun, announced>>

PwNextWorkItem ==
  /\ pc = "pw_item_loop"
  /\ sent' = sent
  /\ request' = NoReq
  /\ response' = NoBody
  /\ IF work_items = 0
       THEN /\ pc' = "wi_project_loop"
            /\ project_name' = <<>>
            /\ last_exc' = ""
            /\ UNCHANGED <<work_items, work_item, relations, items_begun>>
       ELSE \E item \in WorkItemVals :
              /\ work_items' = work_items - 1
              /\ items_begun' = items_begun + 1
              /\ project_name' = project_name
              /\ IF item.fields.isdict
                   THEN /\ work_item' = [id |-> item.id, fields |-> item.fields]
                        /\ relations' = item.relations
                        /\ pc' = "as_relation_loop"
                        /\ last_exc' = ""
                   ELSE \* fields.get on None: caught by the per-item except
                        /\ UNCHANGED <<work_item, relations>>
                        /\ pc' = "pw_item_loop"
                        /\ last_exc' = "AttributeError"
  /\ UNCHANGED <<svc, plugin, call, result, user_email, orgs, org_url, projects,
                 repo_walk, suggested_tasks, repo_id, item_lookups,
                 items_listed, announced>>

\* ------------------------------------ _get_work_item_repository_association
IndexOf(parts, x) == CHOOSE i \in 1..Len(parts) : parts[i] = x /\ \A j \in 1..(i - 1) : parts[j] # x

IsGitCommitLink(relation) ==
  /\ Contains(relation.rel, ARTIFACT_LINK)
  /\ Contains(relation.url, GIT_REPOSITORIES)
  /\ Contains(relation.url, COMMITS)

\* 'repositories' in url_parts and repo_idx + 1 < len(url_parts)
HasRepoId(url) ==
  LET url_parts == Split(url, SLASH)
  IN  /\ \E i \in 1..Len(url_parts) : url_parts[i] = REPOSITORIES
      /\ IndexOf(url_parts, REPOSITORIES) + 1 <= Len(url_parts)

\* The last segment of the URL: the commit, not the repository.
CommitIdOf(url) ==
  LET url_parts == Split(url, SLASH)
  IN  url_parts[Len(url_parts)]
RepoIdOf(url) ==
  LET url_parts == Split(url, SLASH)
  IN  url_parts[IndexOf(url_parts, REPOSITORIES) + 1]

\* A lookup whose answer is never taken.
LookupIgnored(name) == FALSE
\* 'if repo_name:' after _get_repository_name_from_id
LookupResolved(name) == name # <<>>

RECURSIVE RepoNames(_)
RepoNames(repos) ==
  IF repos = <<>> THEN <<>>
  ELSE (IF Head(repos).name # <<>> THEN <<Head(repos).name>> ELSE <<>>)
       \o RepoNames(Tail(repos))

\* The other end of the list.
LastRepo(repos) == repos[Len(repos)]
\* first_repo = repos[0]
FirstRepo(repos) == repos[1]

AsNextRelation ==
  /\ pc = "as_relation_loop"
  /\ NoRequest
  /\ IF relations = <<>>
       THEN /\ pc' = "as_list_repositories"
            /\ UNCHANGED <<relations, repo_id>>
       ELSE /\ relations' = Tail(relations)
            /\ IF IsGitCommitLink(Head(relations)) /\ HasRepoId(Head(relations).url)
                 THEN pc' = "as_lookup" /\ repo_id' = RepoIdOf(Head(relations).url)
                 ELSE pc' = "as_relation_loop" /\ repo_id' = repo_id
  /\ UNCHANGED <<svc, plugin, call, result, user_email, orgs, org_url, projects,
                 project_name, repo_walk, suggested_tasks, work_items,
                 work_item, item_lookups, items_listed, items_begun, announced>>

AsLookup ==
  /\ pc = "as_lookup"
  /\ LET req == Req("repository", org_url, Quote(project_name), Quote(repo_id))
     IN  \/ /\ RequestRaises(req)
            /\ pc' = "as_relation_loop"
            /\ repo_id' = <<>>
            /\ item_lookups' = item_lookups + 1
            /\ UNCHANGED <<suggested_tasks, work_item, relations>>
         \/ \E name \in {LINKED, <<>>} :
              /\ RequestSucceeds(req, name)
              /\ IF LookupResolved(name)
                   THEN /\ suggested_tasks' = TasksAfterItem(suggested_tasks, work_item,
                             PathJoin(PathJoin(OrgNameOf(org_url), project_name), name))
                        /\ ItemDone
                   ELSE /\ pc' = "as_relation_loop"
                        /\ repo_id' = <<>>
                        /\ item_lookups' = item_lookups + 1
                        /\ UNCHANGED <<suggested_tasks, work_item, relations>>
  /\ UNCHANGED <<svc, plugin, call, result, user_email, orgs, org_url, projects,
                 project_name, repo_walk, work_items, items_listed,
                 items_begun, announced>>

AsListRepositories ==
  /\ pc = "as_list_repositories"
  /\ LET req == Req("repositories", org_url, Quote(project_name), <<>>)
     IN  \/ /\ RequestRaises(req)
            /\ suggested_tasks' = TasksAfterItem(suggested_tasks, work_item, <<>>)
         \/ \E data \in SeqsUpTo(RepoVals \cup {NamelessRepo}, MaxLen) :
              /\ RequestSucceeds(req, data)
              /\ LET repos == RepoNames(data)
                 IN  suggested_tasks' = TasksAfterItem(suggested_tasks, work_item,
                       IF repos # <<>>
                         THEN PathJoin(PathJoin(OrgNameOf(org_url), project_name),
                                       FirstRepo(repos))
                         ELSE <<>>)
  /\ ItemDone
  /\ UNCHANGED <<svc, plugin, call, result, user_email, orgs, org_url, projects,
                 project_name, repo_walk, work_items, items_listed,
                 items_begun, announced>>

\* ------------------------------------ get_repository_details_from_repo_name
\* A validation that only asks for enough segments.
AtLeastThreeSegments(parts) == Len(parts) >= 3
\* 'if len(parts) != 3: raise ValueError'
ValidRepositoryName(parts) == Len(parts) = 3

\* except of the request of get_repository_details_from_repo_name
RepositoryDetailsExcept(e) == Raised("AuthenticationError")

CallGetRepositoryDetails ==
  \E arg \in RepositoryArgVals :
    /\ Enter("get_repository_details_from_repo_name", arg)
    /\ org_url' = <<>>
    /\ IF ValidRepositoryName(Split(arg, SLASH))
         THEN result' = Pending /\ pc' = "rd_request"
         ELSE result' = Raised("ValueError") /\ pc' = "done"

RdRequest ==
  /\ pc = "rd_request"
  /\ LET parts == Split(repository, SLASH)
         req == Req("repository", PathJoin(base_url, Quote(parts[1])),
                    Quote(parts[2]), Quote(parts[3]))
     IN  \/ /\ RequestRaises(req)
            /\ result' = RepositoryDetailsExcept(last_exc')
         \/ \E id \in {ID_A, <<>>} :
              /\ RequestSucceeds(req, id)
              /\ result' = Returned(
                   [ id |-> StrId(id),
                     full_name |-> repository,
                     git_provider |-> "azure_devops",
                     is_public |-> FALSE ])
  /\ pc' = "done"
  /\ UNCHANGED <<svc, plugin, call, user_email, orgs, org_url, projects, project_name,
                 repo_walk, suggested_tasks, item_walk, announced>>

\* ------------------------------------------------------------ get_branches
\* str.replace(old, ''): every occurrence of old removed, left to right
RECURSIVE Remove(_, _)
Remove(x, old) ==
  IF Len(x) < Len(old) THEN x
  ELSE IF SubSeq(x, 1, Len(old)) = old
    THEN Remove(SubSeq(x, Len(old) + 1, Len(x)), old)
    ELSE <<Head(x)>> \o Remove(Tail(x), old)

BranchOf(ref) ==
  [ name |-> Remove(ref.name, REFS_HEADS),
    commit_sha |-> ref.objectId,
    protected |-> FALSE ]

RECURSIVE BranchesOf(_)
BranchesOf(refs) ==
  IF refs = <<>> THEN <<>>
  ELSE (IF BranchOf(Head(refs)).name # <<>> THEN <<BranchOf(Head(refs))>> ELSE <<>>)
       \o BranchesOf(Tail(refs))

\* except of the request of get_branches
GetBranchesExcept(e) == Returned(<<>>)

CallGetBranches ==
  \E arg \in RepositoryArgVals :
    /\ Enter("get_branches", arg)
    /\ org_url' = <<>>
    /\ IF ValidRepositoryName(Split(arg, SLASH))
         THEN result' = Pending /\ pc' = "gb_request"
         ELSE result' = Raised("ValueError") /\ pc' = "done"

GbRequest ==
  /\ pc = "gb_request"
  /\ LET parts == Split(repository, SLASH)
         req == Req("refs",
                    IF IsCustom THEN base_url
                    ELSE PathJoin(base_url, Quote(parts[1])),
                    Quote(parts[2]), Quote(parts[3]))
     IN  \/ /\ RequestRaises(req)
            /\ result' = GetBranchesExcept(last_exc')
         \/ \E data \in SeqsUpTo(RefVals, MaxLen) :
              /\ RequestSucceeds(req, data)
              /\ result' = Returned(BranchesOf(data))
  /\ pc' = "done"
  /\ UNCHANGED <<svc, plugin, call, user_email, orgs, org_url, projects, project_name,
                 repo_walk, suggested_tasks, item_walk, announced>>

Next ==
  \/ CallGetRepositories
  \/ GrListOrganizations
  \/ GrNextOrganization
  \/ GrListProjects
  \/ PpNextProject
  \/ PpListRepositories
  \/ CallGetUser
  \/ GuConnectionData
  \/ GuProfile
  \/ GuProbe
  \/ CallGetSuggestedTasks
  \/ GstListOrganizations
  \/ GstNextOrganization
  \/ WiListProjects
  \/ WiNextProject
  \/ WiQuery
  \/ PwDetails
  \/ PwNextWorkItem
  \/ AsNextRelation
  \/ AsLookup
  \/ AsListRepositories
  \/ CallGetRepositoryDetails
  \/ RdRequest
  \/ CallGetBranches
  \/ GbRequest

Spec == Init /\ [][Next]_vars

\* ------------------------------------------------- the constructor alone
HTTP_PREFIX == <<"h", "t", "t", "p", ":", "/", "/">>
Schemes == {HTTPS_PREFIX, HTTP_PREFIX}
HOST_A == <<"a", ".", "b">>
HOST_HTTP == <<"h", "t", "t", "p", "d", ".", "b">>
Hosts == {HOST_A, HOST_HTTP}
Suffixes ==
  { <<>>, <<"/">>, <<"/", "p">>, <<"/", "p", "/">>, <<"/", "p", "/", "q">> }
\* base_domain as callers give it: absent, a bare host, a URL, with or
\* without a path and a trailing slash.
BaseDomainVals ==
  {<<>>} \cup {sch \o h \o suf : sch \in Schemes \cup {<<>>}, h \in Hosts, suf \in Suffixes}

InitNew ==
  /\ base_domain \in BaseDomainVals
  /\ token \in BOOLEAN
  /\ base_url = <<>>
  /\ hashseed \in HashSeeds
  /\ pc = "new"
  /\ NoInvocation
  /\ NoPluginCall

\* __init__: sets base_url, or raises and leaves no instance.
Construct ==
  /\ pc = "new"
  /\ LET r == ResolveBaseUrl(base_domain)
     IN  IF r.raised = ""
           THEN base_url' = r.url /\ pc' = "idle" /\ result' = result
           ELSE base_url' = base_url /\ pc' = "failed" /\ result' = Raised(r.raised)
  /\ UNCHANGED <<base_domain, token, hashseed, frames, mock, plugin, call, sent,
                 request, last_exc, response, user_email, orgs, org_url, projects, project_name,
                 repo_walk, suggested_tasks, item_walk, announced>>

NextNew == Construct
SpecNew == InitNew /\ [][NextNew]_vars

\* --------------------------------- get_repositories, invocations interleaved
\* Two invocations of get_repositories on one instance, each suspended at
\* its awaits while the other runs; equal requests get equal answers.
solo == <<op, repository, pc, result, sent, request, last_exc, response,
          user_email, orgs, org_url, projects, project_name, repositories,
          delivered, suggested_tasks, work_items, work_item, relations,
          repo_id, item_lookups, items_listed, items_begun, announced>>

Failed == [state |-> "fail", data |-> <<>>]
Ok(data) == [state |-> "ok", data |-> data]
\* The outcomes a request may have, given what the mock holds for it.
Outcomes(held, bodies) ==
  IF NoTokenConfigured THEN {Failed}
  ELSE IF held.state = "unset" THEN {Failed} \cup {Ok(d) : d \in bodies}
  ELSE {held}
\* A shared list, where every invocation appends.
SharedAccumulator(f) == frames[1].repositories
\* repositories: list[Repository] = [] of the invocation
AccumulatorOf(f) == frames[f].repositories

FrCall ==
  \E f \in Frames :
    /\ frames[f].pc = "idle"
    /\ frames' = [frames EXCEPT ![f] =
         [@ EXCEPT !.pc = IF IsCustom THEN "gr_projects" ELSE "gr_orgs",
                   !.org_url = IF IsCustom THEN base_url ELSE <<>>]]
    /\ UNCHANGED <<base_domain, token, base_url, hashseed, mock, solo, plugin>>

FrListOrganizations ==
  \E f \in Frames :
    /\ frames[f].pc = "gr_orgs"
    /\ \E out \in Outcomes(mock.accounts, SeqsUpTo(OrgVals, MaxLen)) :
         /\ mock' = IF NoTokenConfigured THEN mock ELSE [mock EXCEPT !.accounts = out]
         /\ frames' = [frames EXCEPT ![f] =
              IF out.state = "fail"
                THEN [@ EXCEPT !.pc = "done",
                               !.result = GetRepositoriesExcept("HTTPError")]
                ELSE [@ EXCEPT !.pc = "gr_org_loop", !.orgs = out.data]]
    /\ UNCHANGED <<base_domain, token, base_url, hashseed, solo, plugin>>

FrNextOrganization ==
  \E f \in Frames :
    /\ frames[f].pc = "gr_org_loop"
    /\ LET fr == frames[f]
       IN  frames' = [frames EXCEPT ![f] =
             IF fr.orgs = <<>>
               THEN [fr EXCEPT !.pc = "done", !.org_url = <<>>,
                               !.result = Returned(AccumulatorOf(f))]
               ELSE IF Head(fr.orgs).accountName = <<>>
                 THEN [fr EXCEPT !.orgs = Tail(fr.orgs)]
                 ELSE [fr EXCEPT !.orgs = Tail(fr.orgs), !.pc = "gr_projects",
                         !.org_url = PathJoin(base_url, Head(fr.orgs).accountName)]]
    /\ UNCHANGED <<base_domain, token, base_url, hashseed, mock, solo, plugin>>

\* The end of _process_projects, or of the try around it.
FrameAfterProjects(f, fr) ==
  IF IsCustom
    THEN [fr EXCEPT !.pc = "done", !.org_url = <<>>,
                    !.result = Returned(AccumulatorOf(f))]
    ELSE [fr EXCEPT !.pc = "gr_org_loop", !.org_url = <<>>]

FrListProjects ==
  \E f \in Frames :
    /\ frames[f].pc = "gr_projects"
    /\ LET fr == frames[f]
       IN  \E out \in Outcomes(mock.projects[fr.org_url],
                               SeqsUpTo(ProjectVals, MaxSharedProjects)) :
             /\ mock' = IF NoTokenConfigured THEN mock
                        ELSE [mock EXCEPT !.projects[fr.org_url] = out]
             /\ frames' = [frames EXCEPT ![f] =
                  IF out.state = "fail" THEN FrameAfterProjects(f, fr)
                  ELSE [fr EXCEPT !.pc = "pp_loop", !.projects = out.data]]
    /\ UNCHANGED <<base_domain, token, base_url, hashseed, solo, plugin>>

FrNextProject ==
  \E f \in Frames :
    /\ frames[f].pc = "pp_loop"
    /\ LET fr == frames[f]
       IN  frames' = [frames EXCEPT ![f] =
             IF fr.projects = <<>> THEN FrameAfterProjects(f, fr)
             ELSE IF ProjectEligible(Head(fr.projects))
               THEN [fr EXCEPT !.projects = Tail(fr.projects), !.pc = "pp_repos",
                               !.project_name = Head(fr.projects).name]
               ELSE [fr EXCEPT !.projects = Tail(fr.projects)]]
    /\ UNCHANGED <<base_domain, token, base_url, hashseed, mock, solo, plugin>>

FrListRepositories ==
  \E f \in Frames :
    /\ frames[f].pc = "pp_repos"
    /\ LET fr == frames[f]
           key == <<fr.org_url, fr.project_name>>
       IN  \E out \in Outcomes(mock.repositories[key], SeqsUpTo(RepoVals, MaxLen)) :
             /\ mock' = IF NoTokenConfigured THEN mock
                        ELSE [mock EXCEPT !.repositories[key] = out]
             /\ frames' = [frames EXCEPT ![f] =
                  IF out.state = "fail"
                    THEN [fr EXCEPT !.pc = "pp_loop", !.project_name = <<>>,
                                    !.projects = ProjectsLeftAfterError(fr.projects)]
                    ELSE [fr EXCEPT !.pc = "pp_loop", !.project_name = <<>>,
                            !.repositories = AccumulatorOf(f)
                              \o RepositoriesOf(out.data, OrgNameOf(fr.org_url),
                                                fr.project_name)]]
    /\ UNCHANGED <<base_domain, token, base_url, hashseed, solo, plugin>>

NextInterleaved ==
  \/ FrCall
  \/ FrListOrganizations
  \/ FrNextOrganization
  \/ FrListProjects
  \/ FrNextProject
  \/ FrListRepositories
SpecInterleaved == Init /\ [][NextInterleaved]_vars

\* ------------------------------------------------- process_files_to_prompt
\* The agent skill alone: its calls on a file system that keeps what
\* earlier calls left. Paths are texts; contents and messages are kept whole.
TESTING_JSON == <<"t", "e", "s", "t", "i", "n", "g", ".", "j", "s", "o", "n">>
CUSTOM_OUTPUT == <<"d", "/", "o">>
NESTED_OUTPUT == <<"d", "/", "e", "/", "o">>
OutputFileVals == {TESTING_JSON, CUSTOM_OUTPUT, NESTED_OUTPUT}
F1 == <<"a">>
F2 == <<"b">>
SANDBOX_ENV_DIR == <<"s">>
ENV_TMP == SANDBOX_ENV_DIR \o <<"/", "t", "m", "p">>
\* f'{os.environ["SANDBOX_ENV_DIR"]}/tmp/files_to_prompt_input.txt'
INPUT_FILE == ENV_TMP \o <<"/">> \o <<"files_to_prompt_input.txt">>
ERROR_PREFIX == <<"Error processing files: ">>
OLD == <<"old">>
ToolOutputs == {<<"x">>, <<"y">>}

\* os.path.dirname: up to the last '/', trailing slashes dropped unless the
\* head is nothing but slashes
RECURSIVE LastSlash(_)
LastSlash(path) ==
  IF path = <<>> THEN 0
  ELSE IF path[Len(path)] = SLASH THEN Len(path)
  ELSE LastSlash(SubSeq(path, 1, Len(path) - 1))
Dirname(path) ==
  LET head == SubSeq(path, 1, LastSlash(path))
  IN  IF head # <<>> /\ \E i \in 1..Len(head) : head[i] # SLASH
        THEN RStrip(head, SLASH)
        ELSE head

\* the directories os.makedirs(name) makes sure of: name and those above it
RECURSIVE Ancestors(_)
Ancestors(name) ==
  IF name = <<>> THEN {} ELSE {name} \cup Ancestors(Dirname(name))

\* args = ['files-to-prompt', '-o', output_file] and the two flags
ArgsOf(out, md, ln) ==
  <<"files-to-prompt", "-o", out>>
    \o (IF md THEN <<"--markdown">> ELSE <<>>)
    \o (IF ln THEN <<"--line-numbers">> ELSE <<>>)

\* f.write(file_name + '\n') for each name
Lines(names) == [i \in 1..Len(names) |-> names[i] \o <<"\n">>]

Exists(path) == \E f \in files : f.path = path
ContentOf(path) == (CHOOSE f \in files : f.path = path).content
\* open(path, 'w') ... write: the file holds the content, whatever it held
Written(path, content) ==
  {f \in files : f.path # path} \cup {[path |-> path, content |-> content]}

\* str(e), e.g. str(KeyError('SANDBOX_ENV_DIR'))
StrOf(e) ==
  IF e = "KeyError" THEN <<"'SANDBOX_ENV_DIR'">>
  ELSE IF e = "Exception" THEN <<"Test error">>
  ELSE <<e>>

\* An exception outside try reaches the caller.
Uncaught(e) ==
  /\ pc' = "done"
  /\ last_exc' = e
  /\ result' = Raised(e)
\* except Exception as e: return f'Error processing files: {str(e)}'
Caught(e) ==
  /\ pc' = "done"
  /\ last_exc' = e
  /\ result' = Returned(ERROR_PREFIX \o StrOf(e))

service == <<base_domain, token, base_url, hashseed, frames, mock, repository,
             sent, request, response, user_email, orgs, org_url, projects,
             project_name, repo_walk, suggested_tasks, item_walk, announced>>

InitFiles ==
  /\ base_domain = <<>>
  /\ token = FALSE
  /\ base_url = DEFAULT_BASE_URL
  /\ hashseed = 0
  /\ pc = "idle"
  /\ NoInvocation
  /\ file_names = <<>>
  /\ output_file = <<>>
  /\ markdown = FALSE
  /\ line_numbers = FALSE
  /\ args = <<>>
  /\ environ \in {{}, {"SANDBOX_ENV_DIR"}}
  /\ dirs \in SUBSET {ENV_TMP, Dirname(CUSTOM_OUTPUT)}
  /\ files \in {{}} \cup
       { {[path |-> out, content |-> OLD]} :
           out \in {o \in OutputFileVals : Dirname(o) \in dirs \cup {<<>>}} }

\* process_files_to_prompt(file_names, output_file, markdown, line_numbers)
CallProcessFiles ==
  /\ pc \in {"idle", "done"}
  /\ \E names \in SeqsUpTo({F1, F2}, MaxLen), out \in OutputFileVals,
        md \in BOOLEAN, ln \in BOOLEAN :
       /\ file_names' = names
       /\ output_file' = out
       /\ markdown' = md
       /\ line_numbers' = ln
       /\ IF names = <<>>
            THEN pc' = "done" /\ result' = Returned(<<>>)
            ELSE pc' = "fp_makedirs" /\ result' = Pending
  /\ op' = "process_files_to_prompt"
  /\ last_exc' = ""
  /\ args' = <<>>
  /\ UNCHANGED <<service, environ, dirs, files>>

\* os.makedirs(os.path.dirname(output_file), exist_ok=True), then args
FpMakedirs ==
  /\ pc = "fp_makedirs"
  /\ LET name == Dirname(output_file)
     IN  IF name = <<>>
           THEN Uncaught("FileNotFoundError") /\ UNCHANGED <<dirs, args>>
           ELSE \/ /\ dirs' = dirs \cup Ancestors(name)
                   /\ args' = ArgsOf(output_file, markdown, line_numbers)
                   /\ pc' = "fp_write_input"
                   /\ UNCHANGED <<result, last_exc>>
                \/ /\ name \notin dirs
                   /\ Uncaught("PermissionError")
                   /\ UNCHANGED <<dirs, args>>
  /\ UNCHANGED <<service, op, file_names, output_file, markdown, line_numbers,
                 environ, files>>

\* with open(f'{os.environ["SANDBOX_ENV_DIR"]}/tmp/files_to_prompt_input.txt', 'w')
FpWriteInput ==
  /\ pc = "fp_write_input"
  /\ IF "SANDBOX_ENV_DIR" \notin environ
       THEN Caught("KeyError") /\ UNCHANGED files
     ELSE IF ENV_TMP \notin dirs
       THEN Caught("FileNotFoundError") /\ UNCHANGED files
     ELSE /\ files' = Written(INPUT_FILE, Lines(file_names))
          /\ pc' = "fp_run"
          /\ UNCHANGED <<result, last_exc>>
  /\ UNCHANGED <<service, op, file_names, output_file, markdown, line_numbers,
                 environ, dirs, args>>

\* subprocess.run(args, check=True, env=env)
FpRun ==
  /\ pc = "fp_run"
  /\ \/ \E e \in {"Exception", "CalledProcessError"} :
          Caught(e) /\ UNCHANGED files
     \/ \E content \in ToolOutputs :
          /\ files' = Written(output_file, content)
          /\ pc' = "fp_read"
          /\ UNCHANGED <<result, last_exc>>
  /\ UNCHANGED <<service, op, file_names, output_file, markdown, line_numbers,
                 environ, dirs, args>>

\* with open(output_file, 'r') as f: return f.read()
FpRead ==
  /\ pc = "fp_read"
  /\ \/ /\ pc' = "done"
        /\ result' = Returned(ContentOf(output_file))
        /\ UNCHANGED last_exc
     \/ Caught("PermissionError")
  /\ UNCHANGED <<service, op, plugin>>

NextFiles ==
  \/ CallProcessFiles
  \/ FpMakedirs
  \/ FpWriteInput
  \/ FpRun
  \/ FpRead
SpecFiles == InitFiles /\ [][NextFiles]_vars

\* ------------------------------ get_repositories and get_suggested_tasks
\* Both walkers against one and the same API: its answers to the listings
\* are fixed first, every request succeeds, get_repositories runs, and
\* get_suggested_tasks then gets the same answers to the same listings.
AnswerTables ==
  { [ accounts |-> Ok(<<[accountName |-> O1]>>),
      projects |-> [u \in Scopes |-> Ok(ps)],
      repositories |-> [k \in Scopes \X {P1, P2} |-> Ok(rs)] ] :
    ps \in SeqsUpTo(ProjectVals, MaxSharedProjects), rs \in SeqsUpTo(RepoVals, MaxLen) }

WkFixAnswers ==
  /\ mock = NoMock
  /\ token
  /\ pc = "idle"
  /\ \A f \in Frames : frames[f].pc = "idle"
  /\ mock' \in AnswerTables
  /\ UNCHANGED <<base_domain, token, base_url, hashseed, frames, solo, plugin>>

Fixed == mock # NoMock
\* get_repositories has returned; get_suggested_tasks may run.
TasksTurn == Fixed /\ \A f \in Frames : frames[f].pc = "done"
\* The step's request, if any, succeeded, and a listing was answered as the
\* API answers it.
Replayed ==
  /\ sent' # sent => response' # NoBody
  /\ response'.kind = "accounts" => response'.value = mock.accounts.data
  /\ response'.kind = "projects" =>
       response'.value = mock.projects[request'.org_url].data
  /\ response'.kind = "repositories" =>
       response'.value = mock.repositories[<<request'.org_url, request'.project>>].data

NextWalkers ==
  \/ WkFixAnswers
  \/ Fixed /\ FrCall
  \/ Fixed /\ FrListOrganizations
  \/ Fixed /\ FrNextOrganization
  \/ Fixed /\ FrListProjects
  \/ Fixed /\ FrNextProject
  \/ Fixed /\ FrListRepositories
  \/ TasksTurn /\ CallGetSuggestedTasks /\ Replayed
  \/ TasksTurn /\ GuConnectionData /\ Replayed
  \/ TasksTurn /\ GuProfile /\ Replayed
  \/ TasksTurn /\ GstListOrganizations /\ Replayed
  \/ TasksTurn /\ GstNextOrganization /\ Replayed
  \/ TasksTurn /\ WiListProjects /\ Replayed
  \/ TasksTurn /\ WiNextProject /\ Replayed
  \/ TasksTurn /\ WiQuery /\ Replayed
  \/ TasksTurn /\ PwDetails /\ Replayed
  \/ TasksTurn /\ PwNextWorkItem /\ Replayed
  \/ TasksTurn /\ AsNextRelation /\ Replayed
  \/ TasksTurn /\ AsLookup /\ Replayed
  \/ TasksTurn /\ AsListRepositories /\ Replayed
SpecWalkers == Init /\ [][NextWalkers]_vars

\* ------------------------------------------------------------ properties
Done == pc = "done"
Aggregates == {"get_repositories", "get_suggested_tasks"}
ByName == {"get_repository_details_from_repo_name", "get_branches"}
Segments(name) == Len(Split(name, SLASH))

\* C1: get_repositories and get_suggested_tasks never hand an exception to
\* their caller: whatever requests failed, and wherever, an invocation of
\* either never holds a raised result, and once it is over it has returned.
C1_AggregatesNeverRaise ==
  op \in Aggregates =>
    /\ result.status # "raised"
    /\ Done => result.status = "returned"

\* get_repositories is over after its organizations listing failed.
C1_Witness ==
  /\ op = "get_repositories"
  /\ Done
  /\ request.kind = "accounts"
  /\ last_exc \in HttpErrors
  /\ result = Returned(<<>>)

\* C2: a repository name that does not have exactly three '/'-separated
\* segments makes get_repository_details_from_repo_name and get_branches end
\* with ValueError, and no request has been sent.
C2_WrongSegmentCount ==
  (op \in ByName /\ Segments(repository) # 3) =>
    /\ Done
    /\ result = Raised("ValueError")
    /\ Total = 0

\* A name of four segments was refused.
C2_Witness ==
  /\ op \in ByName
  /\ Segments(repository) = 4
  /\ Done
  /\ result.exc = "ValueError"

\* The methods that send a request whatever their argument, and the named
\* ones once the name is valid.
HasToRequest ==
  \/ op \in {"get_user", "get_repositories", "get_suggested_tasks"}
  \/ op \in ByName /\ Segments(repository) = 3

\* C3 as stated: with no token, each of the five methods ends with an
\* authentication error reaching its caller, and no request is sent.
C3_AsStated ==
  (~token /\ Done /\ HasToRequest) =>
    /\ result = Raised("AuthenticationError")
    /\ Total = 0

\* C3: with no token no request is ever sent; get_user and
\* get_repository_details_from_repo_name end with an authentication error
\* reaching the caller, while get_repositories, get_suggested_tasks and
\* get_branches absorb it and return an empty list.
C3_NoToken ==
  ~token =>
    /\ Total = 0
    /\ (Done /\ HasToRequest) =>
         IF op \in {"get_user", "get_repository_details_from_repo_name"}
           THEN result = Raised("AuthenticationError")
           ELSE result = Returned(<<>>)

\* get_branches is over, without a token, having been refused its request.
C3_Witness ==
  /\ ~token
  /\ op = "get_branches"
  /\ Done
  /\ last_exc = "AuthenticationError"
  /\ result = Returned(<<>>)

\* What get_repositories owes for the list-repositories bodies it received,
\* in the order it received them.
RECURSIVE RepositoriesDelivered(_)
RepositoriesDelivered(ds) ==
  IF ds = <<>> THEN <<>>
  ELSE RepositoriesOf(Head(ds).repos, OrgNameOf(Head(ds).org_url), Head(ds).project)
       \o RepositoriesDelivered(Tail(ds))

\* C4: in get_repositories a failed list-repositories or list-projects
\* request touches only its own project or organization.  Once the call is
\* over (its organizations listing, if any, having succeeded), every
\* organization listed with a name had its projects requested, every listed
\* project with an id and a name had its repositories requested, and the
\* result holds, in the order of the traversal, the repositories of every
\* answered list-repositories request.
C4_RepositoryFailureIsolation ==
  (op = "get_repositories" /\ Done /\ token /\ request.kind # "accounts") =>
    /\ sent["projects"] = IF IsCustom THEN 1 ELSE announced.orgs
    /\ sent["repositories"] = announced.projects
    /\ result = Returned(RepositoriesDelivered(delivered))

\* Two projects were listed; the request of one failed and the repositories
\* of the other are in the result.
C4_Witness ==
  /\ op = "get_repositories"
  /\ Done
  /\ sent["repositories"] = 2
  /\ Len(delivered) = 1
  /\ delivered[1].repos # <<>>
  /\ Len(result.value) = Len(delivered[1].repos)

IsPrefix(a, b) == Len(a) <= Len(b) /\ SubSeq(b, 1, Len(a)) = a
TasksRunning == op = "get_suggested_tasks" /\ pc \notin {"idle", "done"}

Last(q) == q[Len(q)]
Named(repos) == SelectSeq(repos, LAMBDA r : r.name # <<>>)
FullName(org, project, repo) == PathJoin(PathJoin(org, project), repo)
AtLookup == op = "get_suggested_tasks" /\ pc = "as_lookup"
AtFallback == op = "get_suggested_tasks" /\ pc = "as_list_repositories"
ItemLevel == {"pw_item_loop", "as_relation_loop", "as_lookup", "as_list_repositories"}

\* C7 as stated: a work item with a Git commit link (one whose lookup by id
\* was made) never gets its task from the project's list-repositories
\* result.
C7_AsStated ==
  [][ (AtFallback /\ item_lookups > 0) => suggested_tasks' = suggested_tasks ]_vars

\* C7: when the lookup by id made for a Git commit link of a work item
\* answers with a name, the item's task is appended with the repository
\* org/project/name of that answer, the item is over and no list-repositories
\* request is made for it; the list is reached only with every relation read.
C7_LookupNamesTask ==
  [][ /\ (AtLookup /\ response'.kind = "repository" /\ response'.value # <<>>) =>
           /\ suggested_tasks' = Append(suggested_tasks,
                SuggestedTaskOf(work_item,
                  FullName(OrgNameOf(org_url), project_name, response'.value)))
           /\ Last(Split(Last(suggested_tasks').repo, SLASH)) = response'.value
           /\ request'.repo = repo_id
           /\ pc' = "pw_item_loop"
      /\ pc' = "as_list_repositories" => relations' = <<>> ]_vars

\* The second lookup made for one work item answered, and named its task.
C7_Witness ==
  /\ op = "get_suggested_tasks"
  /\ pc = "pw_item_loop"
  /\ response.kind = "repository"
  /\ response.value = LINKED
  /\ sent["repository"] = 2
  /\ items_begun = 1
  /\ Len(suggested_tasks) = 1
  /\ Last(Split(suggested_tasks[1].repo, SLASH)) = LINKED

\* C8 as stated: for a work item without a Git commit link, a
\* list-repositories response holding at least one repository gives the task
\* the repository org/project/R, R the first element of the response.
C8_AsStated ==
  [][ (AtFallback /\ item_lookups = 0
        /\ response'.kind = "repositories" /\ response'.value # <<>>) =>
        suggested_tasks' = Append(suggested_tasks,
          SuggestedTaskOf(work_item,
            FullName(OrgNameOf(org_url), project_name, response'.value[1].name)))
    ]_vars

\* C8: for a work item without a Git commit link, a list-repositories
\* response gives the task the repository org/project/R, R the first element
\* of the response that has a name; with no such element no task is added.
C8_FirstNamedRepository ==
  [][ (AtFallback /\ item_lookups = 0 /\ response'.kind = "repositories") =>
        IF Named(response'.value) # <<>>
          THEN suggested_tasks' = Append(suggested_tasks,
                 SuggestedTaskOf(work_item,
                   FullName(OrgNameOf(org_url), project_name,
                            Named(response'.value)[1].name)))
          ELSE suggested_tasks' = suggested_tasks ]_vars

\* No lookup was made; the list answered with two repositories of different
\* names, and the task carries the first.
C8_Witness ==
  /\ op = "get_suggested_tasks"
  /\ pc = "pw_item_loop"
  /\ sent["repository"] = 0
  /\ response.kind = "repositories"
  /\ Len(response.value) = 2
  /\ response.value[1].name # <<>>
  /\ response.value[2].name # <<>>
  /\ response.value[1].name # response.value[2].name
  /\ Len(suggested_tasks) = 1
  /\ Last(Split(suggested_tasks[1].repo, SLASH)) = response.value[1].name

\* The step ends the work item at hand with an association.
Associated ==
  \/ AtLookup /\ response'.kind = "repository" /\ response'.value # <<>>
  \/ AtFallback /\ response'.kind = "repositories" /\ Named(response'.value) # <<>>
\* The step ends the work item at hand.
ItemOver ==
  /\ op = "get_suggested_tasks"
  /\ pc \in {"as_lookup", "as_list_repositories"}
  /\ pc' = "pw_item_loop"

\* C9: get_suggested_tasks adds tasks one at a time, each at the end of the
\* accumulator, at the step that ends a work item with an association, and
\* carrying that item's id and title; an item that ends without association
\* adds none; a task equal to one already held is added all the same.
C9_OneTaskPerAssociatedItem ==
  [][ TasksRunning =>
        /\ suggested_tasks' # suggested_tasks =>
             /\ ItemOver /\ Associated
             /\ Len(suggested_tasks') = Len(suggested_tasks) + 1
             /\ IsPrefix(suggested_tasks, suggested_tasks')
             /\ Last(suggested_tasks').issue_number = work_item.id
             /\ work_item.fields.title # "" =>
                  Last(suggested_tasks').title = work_item.fields.title
        /\ (ItemOver /\ Associated) => suggested_tasks' # suggested_tasks
        /\ (ItemOver /\ ~Associated) => suggested_tasks' = suggested_tasks ]_vars

\* The same work item came twice and two equal tasks are held.
C9_Witness ==
  /\ op = "get_suggested_tasks"
  /\ Len(suggested_tasks) = 2
  /\ suggested_tasks[1] = suggested_tasks[2]

\* C10: a WIQL answer with no work item ends its project: the walk goes to
\* the next project with the accumulator as it was.  The detail fetch is
\* entered only on a WIQL answer that lists work items, the item-level
\* positions only from the detail fetch, and every detail, lookup and
\* list-repositories request is for the project at hand.  A call that ends
\* without any detail fetch returns [].
C10_EmptyQueryEndsProject ==
  [][ /\ (op = "get_suggested_tasks" /\ pc = "wi_wiql"
           /\ response'.kind = "wiql" /\ response'.value = <<>>) =>
           /\ pc' = "wi_project_loop"
           /\ project_name' = <<>>
           /\ suggested_tasks' = suggested_tasks
      /\ (pc' = "pw_details" /\ pc # "pw_details") =>
           (pc = "wi_wiql" /\ response'.kind = "wiql" /\ response'.value # <<>>)
      /\ (pc' \in ItemLevel /\ pc \notin ItemLevel) => pc = "pw_details"
      /\ (op' = "get_suggested_tasks"
           /\ request'.kind \in {"workitems", "repository", "repositories"}) =>
           (project_name # <<>> /\ request'.project = Quote(project_name))
      /\ (op' = "get_suggested_tasks" /\ pc' = "done" /\ sent'["workitems"] = 0) =>
           result' = Returned(<<>>) ]_vars

\* The only project listed answered its WIQL query with no work item; the
\* user, the projects and that query are all that was asked.
C10_Witness ==
  /\ op = "get_suggested_tasks"
  /\ pc = "wi_project_loop"
  /\ response.kind = "wiql"
  /\ response.value = <<>>
  /\ announced.projects = 1
  /\ projects = <<>>
  /\ sent["wiql"] = 1
  /\ Total = 3

\* C11: a base_domain that is a full URL resolves to scheme + host: the path
\* beyond the host is cut, and a host-only URL is kept minus its trailing
\* slash, so that it resolves as the same URL without the slash does.
C11_UrlResolvesToSchemeAndHost ==
  \A sch \in Schemes, h \in Hosts :
    /\ \A suf \in Suffixes :
         (base_domain = sch \o h \o suf /\ pc # "new") =>
           (pc = "idle" /\ base_url = sch \o h)
    /\ ResolveBaseUrl(sch \o h \o <<SLASH>>) = ResolveBaseUrl(sch \o h)
    /\ ResolveBaseUrl(sch \o h) = Resolved(sch \o h)

\* A URL with a two-segment path was cut down to its scheme and host.
C11_Witness ==
  /\ pc = "idle"
  /\ base_domain = HTTPS_PREFIX \o HOST_A \o <<"/", "p", "/", "q">>
  /\ base_url = HTTPS_PREFIX \o HOST_A

\* C12 as stated: a bare host name, whatever its first letters, constructs
\* with base_url = 'https://' + host; an absent base_domain gives the
\* default host.
C12_AsStated ==
  pc # "new" =>
    /\ \A h \in Hosts :
         base_domain = h => (pc = "idle" /\ base_url = HTTPS_PREFIX \o h)
    /\ base_domain = <<>> => (pc = "idle" /\ base_url = DEFAULT_BASE_URL)

RECURSIVE NativeIds(_)
NativeIds(ds) ==
  IF ds = <<>> THEN <<>>
  ELSE [i \in 1..Len(Head(ds).repos) |-> Head(ds).repos[i].id] \o NativeIds(Tail(ds))

\* C14 as stated: the id of a Repository, and of a User built from a body,
\* is the same for the same native identifier in every run: it is the id
\* that identifier gets under any hash salt.
C14_AsStated ==
  \A seed \in HashSeeds :
    /\ (op = "get_repositories" /\ Done /\ result.value # <<>>) =>
         \A i \in 1..Len(result.value) :
           result.value[i].id = IntId(Mask31(PyHash(seed, NativeIds(delivered)[i])))
    /\ (op = "get_user" /\ Done /\ result.status = "returned"
          /\ response.kind \in {"connectionData", "profile"}) =>
         result.value.id = Mask31(PyHash(seed, USER_ID))

\* A Repository whose id is the masked hash of the native identifier.
HashMapped(r, native) ==
  /\ r.id.type = "int"
  /\ r.id.int \in 0..MASK31
  /\ r.id.int = Mask31(PyHash(hashseed, native))
  /\ r.is_public = FALSE

\* C15 as stated: every Repository returned by get_repositories and by
\* get_repository_details_from_repo_name has an integer id in 0..2^31-1,
\* the masked hash of the native identifier and never that identifier
\* itself, and is_public = false.
C15_AsStated ==
  /\ (op = "get_repositories" /\ Done) =>
       \A i \in 1..Len(result.value) :
         HashMapped(result.value[i], NativeIds(delivered)[i])
  /\ (op = "get_repository_details_from_repo_name" /\ Done
        /\ result.status = "returned") =>
       HashMapped(result.value, response.value)

\* C16 as stated: called with a non-empty file list, process_files_to_prompt
\* never raises; a failure at any of its steps comes back as a text that
\* begins with 'Error processing files: ', and with the default output_file
\* and no failure it returns the content of 'testing.json'.
C16_AsStated ==
  (op = "process_files_to_prompt" /\ Done /\ file_names # <<>>) =>
    /\ result.status = "returned"
    /\ last_exc # "" => StartsWith(result.value, ERROR_PREFIX)
    /\ (last_exc = "" /\ output_file = TESTING_JSON) =>
         Exists(TESTING_JSON) /\ result.value = ContentOf(TESTING_JSON)

\* C17 as stated: after process_files_to_prompt is called with an empty
\* file list and an output_file path, the output file exists.
C17_AsStated ==
  (op = "process_files_to_prompt" /\ Done /\ file_names = <<>>
     /\ output_file # <<>>) =>
    Exists(output_file)

\* C18 as stated, for the projects: every project of a list-projects
\* response gets its list-repositories request.
C18_AsStated ==
  [][ (op = "get_repositories" /\ pc = "pp_loop" /\ projects # <<>>)
        => pc' = "pp_repos" ]_vars

\* C18: the requests of get_repositories are bounded by what the responses
\* list, and their shape is fixed by the mode.  With no token none is sent.
\* A base other than the default host gets no list-organizations request
\* and at most one list-projects request; the default host gets at most
\* one list-organizations request, which precedes every list-projects
\* request, one per organization listed with a name.  A list-repositories
\* request follows the list-projects request of its project, one per
\* project listed with an id and a name, and those of one organization are
\* over before the next organization is taken.  A call that ends after its
\* first request succeeded has sent exactly these.
C18_RequestShape ==
  op = "get_repositories" =>
    /\ \A k \in Kinds \ {"accounts", "projects", "repositories"} : sent[k] = 0
    /\ ~token => Total = 0
    /\ IF base_url # DEFAULT_BASE_URL
         THEN sent["accounts"] = 0 /\ sent["projects"] <= 1
         ELSE /\ sent["accounts"] <= 1
              /\ sent["projects"] <= announced.orgs
              /\ sent["projects"] > 0 => sent["accounts"] = 1
    /\ sent["repositories"] <= announced.projects
    /\ sent["repositories"] > 0 => sent["projects"] > 0
    /\ pc = "gr_org_loop" =>
         /\ sent["projects"] = announced.orgs - CountNamedOrgs(orgs)
         /\ sent["repositories"] = announced.projects
    /\ (Done /\ token /\ request.kind # "accounts") =>
         /\ sent["accounts"] = (IF base_url # DEFAULT_BASE_URL THEN 0 ELSE 1)
         /\ sent["projects"] =
              (IF base_url # DEFAULT_BASE_URL THEN 1 ELSE announced.orgs)
         /\ sent["repositories"] = announced.projects

\* On the default host a call ended after one list-organizations request,
\* the list-projects requests of two organizations and the
\* list-repositories requests of their three projects.
C18_Witness ==
  /\ op = "get_repositories"
  /\ Done
  /\ base_url = DEFAULT_BASE_URL
  /\ sent["accounts"] = 1
  /\ sent["projects"] = 2
  /\ sent["repositories"] = 3
  /\ announced = [orgs |-> 2, projects |-> 3]

UserKinds == {"connectionData", "profile", "probe"}
ProjectScoped == {"wiql", "workitems", "repository", "repositories"}
AssociationKinds == {"repository", "repositories"}
\* The step sends a request; one of a kind in K.
Sends == sent' # sent
SendsKind(K) == Sends /\ request'.kind \in K

\* C19: one invocation of get_suggested_tasks sends its requests one at a
\* time and in the order of its traversal.  A step sends at most one
\* request; the organization and project listings come after an answered
\* user request; a WIQL query comes after the project listing; a detail
\* fetch comes directly after the WIQL query of the same project; the
\* association requests come after the detail fetch, for the one work item
\* at hand, and a work item is begun only when the one before it is over;
\* every request of a project names the project at hand, which changes only
\* between projects; each task is appended behind those already there, for
\* the work item and project at hand; and what is returned is that list.
C19_SequentialOrder ==
  [][ TasksRunning =>
        /\ Sends => /\ request' # NoReq
                    /\ sent' = [sent EXCEPT ![request'.kind] = @ + 1]
        /\ SendsKind({"accounts", "projects"}) =>
             /\ user_email # ""
             /\ SumOver(sent, UserKinds) >= 1
        /\ SendsKind({"wiql"}) => sent["projects"] >= 1 /\ pc = "wi_wiql"
        /\ SendsKind({"workitems"}) =>
             /\ request.kind = "wiql"
             /\ request.org_url = request'.org_url
             /\ request.project = request'.project
        /\ SendsKind(AssociationKinds) =>
             /\ sent["workitems"] >= 1
             /\ work_item # NoWorkItem
             /\ items_begun <= items_listed
        /\ SendsKind(ProjectScoped) =>
             /\ project_name # <<>>
             /\ request'.project = Quote(project_name)
             /\ request'.org_url = org_url
        /\ project_name' # project_name =>
             \/ pc = "wi_project_loop" /\ project_name = <<>>
             \/ pc' = "wi_project_loop" /\ project_name' = <<>>
        /\ items_begun' # items_begun =>
             /\ pc = "pw_item_loop"
             /\ work_item = NoWorkItem
             /\ items_begun' = items_begun + 1
        /\ IsPrefix(suggested_tasks, suggested_tasks')
        /\ Len(suggested_tasks') <= Len(suggested_tasks) + 1
        /\ Len(suggested_tasks') = Len(suggested_tasks) + 1 =>
             /\ SendsKind(AssociationKinds)
             /\ Last(suggested_tasks').issue_number = work_item.id
             /\ StartsWith(Last(suggested_tasks').repo,
                           PathJoin(OrgNameOf(org_url), project_name) \o <<SLASH>>)
        /\ pc' = "done" => result' = Returned(suggested_tasks')
    ]_vars

\* A call returned two tasks, of two different work items of one detail
\* response, after six requests.
C19_Witness ==
  /\ op = "get_suggested_tasks"
  /\ Done
  /\ Total = 6
  /\ sent["workitems"] = 1
  /\ Len(result.value) = 2
  /\ result.value[1].issue_number # result.value[2].issue_number

\* The text before the first occurrence of sep.
Before(x, sep) == SplitOnce(x, sep)[1]
\* The text after the first occurrence of sep.
After(x, sep) == SplitOnce(x, sep)[2]
\* The org of a name built under the scope URL: the first label of the
\* configured host, or the account name that ends the scope URL.
ExpectedOrg(scope) ==
  IF base_url # DEFAULT_BASE_URL
    THEN Before(After(base_domain, SCHEME_SEP), <<".">>)
    ELSE After(scope, DEFAULT_BASE_URL \o <<SLASH>>)
RECURSIVE NamesDelivered(_)
NamesDelivered(ds) ==
  IF ds = <<>> THEN <<>>
  ELSE LET d == Head(ds)
       IN  [i \in 1..Len(d.repos) |->
              ExpectedOrg(d.org_url) \o <<SLASH>> \o d.project \o <<SLASH>> \o d.repos[i].name]
           \o NamesDelivered(Tail(ds))
\* The name the association request just answered gives, if any.
NameAnswered(body) ==
  IF body.kind = "repository" THEN body.value ELSE Named(body.value)[1].name

\* C20: every full_name returned by get_repositories and every repo of a
\* task of get_suggested_tasks is org/project/repo: project and repo are
\* the names of the project listing and of the repository response, org is
\* the first label of the configured host when the resolved base is not the
\* default host and the account name ending the organization scope URL
\* otherwise; it is never the placeholder 'DefaultCollection'.
C20_NamesAreOrgProjectRepo ==
  [][ /\ (op' = "get_repositories" /\ pc' = "done") =>
           /\ Len(result'.value) = Len(NamesDelivered(delivered'))
           /\ \A i \in 1..Len(result'.value) :
                /\ result'.value[i].full_name = NamesDelivered(delivered')[i]
                /\ ~StartsWith(result'.value[i].full_name, DEFAULT_COLLECTION)
           /\ \A k \in 1..Len(delivered') :
                /\ ExpectedOrg(delivered'[k].org_url) # <<>>
                /\ base_url = DEFAULT_BASE_URL =>
                     [accountName |-> ExpectedOrg(delivered'[k].org_url)] \in OrgVals
      /\ (TasksRunning /\ Len(suggested_tasks') = Len(suggested_tasks) + 1) =>
           /\ response'.kind \in AssociationKinds
           /\ Last(suggested_tasks').repo =
                ExpectedOrg(org_url) \o <<SLASH>> \o project_name
                  \o <<SLASH>> \o NameAnswered(response')
           /\ NameAnswered(response') # <<>>
           /\ project_name # <<>>
           /\ ~StartsWith(Last(suggested_tasks').repo, DEFAULT_COLLECTION)
    ]_vars

\* On the host of the unit tests a call returned 'test/p1/r1'.
C20_Witness ==
  /\ op = "get_repositories"
  /\ Done
  /\ base_domain = CUSTOM_BASE_URL
  /\ result.value # <<>>
  /\ result.value[1].full_name =
       <<"t", "e", "s", "t">> \o <<SLASH>> \o P1 \o <<SLASH>> \o R1

GetUserRunning == op = "get_user" /\ pc \notin {"idle", "done"}
\* The step's request was answered with a body of this kind.
Answered(kind) == response' # NoBody /\ response'.kind = kind

\* C21: get_user tries its tiers in a fixed order and returns the user of
\* the first that succeeds.  The connection-data tier runs first and only
\* when the resolved base is not the default host; it succeeds when its
\* response has an authenticatedUser.  The profile tier runs next, before
\* any probe; the probe runs last and gives the minimal user.  The tier that
\* succeeds ends the call with the user built from its response, so no
\* request follows; a tier that fails hands over to the next; and the call
\* raises an authentication error exactly when the probe, reached last,
\* fails too.
C21_TiersInOrder ==
  [][ GetUserRunning =>
        /\ pc \in {"gu_connection_data", "gu_profile", "gu_probe"}
        /\ pc = "gu_connection_data" =>
             /\ base_url # DEFAULT_BASE_URL
             /\ Total = 0
             /\ token => request'.kind = "connectionData"
             /\ IF Answered("connectionData") /\ response'.value.present
                  THEN /\ pc' = "done"
                       /\ result' = Returned(
                            [ id |-> Mask31(PyHash(hashseed, response'.value.id)),
                              login |-> response'.value.providerDisplayName,
                              avatar_url |-> "",
                              name |-> response'.value.providerDisplayName,
                              email |-> response'.value.providerDisplayName ])
                  ELSE pc' = "gu_profile" /\ result' = result
        /\ pc = "gu_profile" =>
             /\ sent["profile"] = 0 /\ sent["probe"] = 0
             /\ sent["connectionData"] =
                  (IF base_url # DEFAULT_BASE_URL /\ token THEN 1 ELSE 0)
             /\ token => request'.kind = "profile"
             /\ IF Answered("profile")
                  THEN /\ pc' = "done"
                       /\ result' = Returned(
                            [ id |-> Mask31(PyHash(hashseed, response'.value.id)),
                              login |-> response'.value.emailAddress,
                              avatar_url |-> "",
                              name |-> response'.value.displayName,
                              email |-> response'.value.emailAddress ])
                  ELSE pc' = "gu_probe" /\ result' = result
        /\ pc = "gu_probe" =>
             /\ sent["probe"] = 0
             /\ sent["profile"] = (IF token THEN 1 ELSE 0)
             /\ token => request'.kind = "probe"
             /\ pc' = "done"
             /\ IF Answered("probe")
                  THEN /\ result'.status = "returned"
                       /\ result'.value.id = 1
                       /\ result'.value.login = "ado-user"
                       /\ result'.value.email = "ado-user@example.com"
                  ELSE result' = Raised("AuthenticationError")
        /\ result'.status = "raised" <=> (pc = "gu_probe" /\ response' = NoBody)
        /\ pc' = "done" =>
             /\ sent' \in [Kinds -> {0, 1}]
             /\ \A k \in Kinds \ UserKinds : sent'[k] = 0
    ]_vars

\* On a custom host the connection data came without a user, the profile
\* request failed and the probe answered: the minimal user after three
\* requests.
C21_Witness ==
  /\ op = "get_user"
  /\ Done
  /\ base_url # DEFAULT_BASE_URL
  /\ sent["connectionData"] = 1 /\ sent["profile"] = 1 /\ sent["probe"] = 1
  /\ response.kind = "probe"
  /\ result.status = "returned"
  /\ result.value.login = "ado-user"

REPOSITORIES_SEGMENT == <<SLASH>> \o REPOSITORIES \o <<SLASH>>
\* A relation that is a Git commit link naming a repository.
Qualifies(relation) ==
  /\ Contains(relation.rel, ARTIFACT_LINK)
  /\ Contains(relation.url, GIT_REPOSITORIES)
  /\ Contains(relation.url, COMMITS)
  /\ Contains(relation.url, REPOSITORIES_SEGMENT)
\* The segment that follows '/repositories/'.
RepositorySegment(url) == Before(After(url, REPOSITORIES_SEGMENT), <<SLASH>>)
AtRelations == op = "get_suggested_tasks" /\ pc = "as_relation_loop"

\* C22: the relations of a work item are scanned in their order.  Each one
\* that qualifies as a Git commit link gets a lookup of the repository its
\* URL names, the others are passed over.  A lookup that fails or comes
\* back without a name leaves the task list alone and the scan goes on with
\* the relations that follow; the first lookup that returns a name gives the
\* item's task and ends the item, the relations left unscanned.  The
\* first-repository fallback is requested only once no relation is left.
C22_FirstResolvingLink ==
  [][ /\ (AtRelations /\ relations # <<>>) =>
           /\ relations' = Tail(relations)
           /\ suggested_tasks' = suggested_tasks
           /\ IF Qualifies(Head(relations))
                THEN /\ pc' = "as_lookup"
                     /\ repo_id' = RepositorySegment(Head(relations).url)
                ELSE pc' = "as_relation_loop"
      /\ (AtRelations /\ relations = <<>>) => pc' = "as_list_repositories"
      /\ (op = "get_suggested_tasks" /\ pc # "as_list_repositories"
            /\ pc' = "as_list_repositories") =>
           AtRelations /\ relations = <<>>
      /\ AtLookup =>
           /\ sent' # sent => /\ request'.kind = "repository"
                              /\ request'.repo = Quote(repo_id)
           /\ IF Answered("repository") /\ response'.value # <<>>
                THEN /\ Len(suggested_tasks') = Len(suggested_tasks) + 1
                     /\ After(After(Last(suggested_tasks').repo, <<SLASH>>), <<SLASH>>)
                          = response'.value
                     /\ Last(suggested_tasks').issue_number = work_item.id
                     /\ pc' = "pw_item_loop"
                     /\ relations' = <<>>
                ELSE /\ suggested_tasks' = suggested_tasks
                     /\ pc' = "as_relation_loop"
                     /\ relations' = relations
                     /\ work_item' = work_item
                     /\ item_lookups' = item_lookups + 1
    ]_vars

\* The lookup of a work item's first link gave nothing, the lookup of its
\* second link answered with a name, and the task carries it; no
\* list-repositories request was made.
C22_Witness ==
  /\ op = "get_suggested_tasks"
  /\ pc = "pw_item_loop"
  /\ sent["repository"] = 2
  /\ sent["repositories"] = 0
  /\ sent["workitems"] = 1
  /\ request.kind = "repository"
  /\ request.repo = <<"x", "2">>
  /\ response.value = LINKED
  /\ Len(suggested_tasks) = 1
  /\ suggested_tasks[1].repo = <<"t", "e", "s", "t">> \o <<SLASH>> \o P1 \o <<SLASH>> \o LINKED

\* C23 as stated: for a name org/project/repo, get_repository_details_from_repo_name
\* and get_branches address the repository under the same scope: the
\* resolved base alone when it is not the default host, the base followed by
\* the org otherwise, then the project and the repository.
C23_AsStated ==
  (op \in ByName /\ Done /\ request # NoReq) =>
    LET parts == Split(repository, SLASH)
    IN  /\ request.org_url =
             (IF base_url # DEFAULT_BASE_URL THEN base_url
              ELSE PathJoin(base_url, Quote(parts[1])))
        /\ request.project = Quote(parts[2])
        /\ request.repo = Quote(parts[3])

\* C24 as stated: against one API whose requests all succeed, the repo of a
\* task that get_suggested_tasks has just produced through the
\* first-repository fallback is the full_name of a Repository that
\* get_repositories returned.
C24_AsStated ==
  (TasksTurn /\ op = "get_suggested_tasks" /\ pc = "pw_item_loop"
     /\ response.kind = "repositories" /\ Named(response.value) # <<>>) =>
    /\ suggested_tasks # <<>>
    /\ \A f \in Frames :
         \E i \in 1..Len(frames[f].result.value) :
           frames[f].result.value[i].full_name = Last(suggested_tasks).repo

====
